---- MODULE Spec2Model ----
(***************************************************************************)
(* Model of the GitHub issue justification plugin (pkg/plugin).            *)
(*                                                                         *)
(* A string of the program is a sequence of one-character strings, so the  *)
(* pattern match, url.Parse, strings.Split and strconv.Atoi/Itoa are       *)
(* computed character by character.  An error value is a record of its     *)
(* text (a sequence of fragments) and of the set of errors it wraps.       *)
(* A nil pointer is the empty sequence, a non-nil one a one-element        *)
(* sequence.                                                               *)
(***************************************************************************)
EXTENDS Integers, Sequences, FiniteSets, TLC

(* ----------------------------- bounds ---------------------------------- *)

\* Total number of Validate calls started on the plugin instance.
MaxCalls == 2

\* The number of times cfg.Validate is called on one configuration.
MaxValidations == 2

(* --------------------------- characters -------------------------------- *)

Digits == <<"0", "1", "2", "3", "4", "5", "6", "7", "8", "9">>

DigitSet == {Digits[i] : i \in DOMAIN Digits}

LetterSet ==
    {"a", "b", "c", "d", "e", "f", "g", "h", "i", "j", "k", "l", "m",
     "n", "o", "p", "q", "r", "s", "t", "u", "v", "w", "x", "y", "z",
     "A", "B", "C", "D", "E", "F", "G", "H", "I", "J", "K", "L", "M",
     "N", "O", "P", "Q", "R", "S", "T", "U", "V", "W", "X", "Y", "Z"}

\* The character class [a-zA-Z0-9-] of issueURLPatternRegExp.
AlnumDash == LetterSet \cup DigitSet \cup {"-"}

AllIn(s, cls) == \A i \in DOMAIN s : s[i] \in cls

\* Index of the first occurrence of character c in s, 0 when absent.
IndexOf(s, c) ==
    IF \E i \in DOMAIN s : s[i] = c
    THEN CHOOSE i \in DOMAIN s : s[i] = c /\ \A j \in 1..(i - 1) : s[j] # c
    ELSE 0

HasPrefix(s, p) == Len(s) >= Len(p) /\ SubSeq(s, 1, Len(p)) = p

\* strings.Split(s, sep) for a one-character separator: always at least one
\* element, Split("", "/") is [""].
RECURSIVE Split(_, _)
Split(s, sep) ==
    LET i == IndexOf(s, sep)
    IN IF i = 0 THEN <<s>>
       ELSE <<SubSeq(s, 1, i - 1)>> \o Split(SubSeq(s, i + 1, Len(s)), sep)

(* ------------------------------ errors --------------------------------- *)

\* A literal fragment of an error text.
L(s) == [lit |-> s, val |-> <<>>]

\* A fragment that renders a program string (%s).
V(v) == [lit |-> "%s", val |-> v]

\* A fragment that renders a program string quoted (%q).
Q(v) == [lit |-> "%q", val |-> v]

\* An error value with the given text that wraps the given errors.
NewError(text, chain) == [text |-> text, chain |-> chain]

\* A test that takes every error for one that wraps the target.
ErrorsIsAny(err, target) == target \in err.chain \cup {target}

\* errors.Is(err, target): target is err itself or is wrapped by it.
ErrorsIs(err, target) == target \in err.chain

\* sub occurs in text as a run of consecutive fragments.
Contains(text, sub) ==
    \E i \in 0..(Len(text) - Len(sub)) :
        SubSeq(text, i + 1, i + Len(sub)) = sub

\* The sentinel every rejection of a justification wraps.
errInvalidJustification ==
    NewError(<<L("invalid justification")>>, {"errInvalidJustification"})

(* --------------------------- strconv ----------------------------------- *)

DigitVal(c) == (CHOOSE i \in DOMAIN Digits : Digits[i] = c) - 1

\* The decimal digits of the largest int (64 bits).
MaxIntDigits ==
    <<"9", "2", "2", "3", "3", "7", "2", "0", "3", "6",
      "8", "5", "4", "7", "7", "5", "8", "0", "7">>

RECURSIVE StripZeros(_)
StripZeros(s) ==
    IF Len(s) > 1 /\ Head(s) = "0" THEN StripZeros(Tail(s)) ELSE s

\* a > b for two digit strings without leading zeros.
DigitsGreater(a, b) ==
    \/ Len(a) > Len(b)
    \/ /\ Len(a) = Len(b)
       /\ \E i \in DOMAIN a :
            /\ DigitVal(a[i]) > DigitVal(b[i])
            /\ \A j \in 1..(i - 1) : a[j] = b[j]

RECURSIVE Horner(_, _)
Horner(s, acc) ==
    IF s = <<>> THEN acc
    ELSE Horner(Tail(s), acc * Len(Digits) + DigitVal(Head(s)))

\* A conversion that truncates a value above the largest int to 0.
AtoiTruncating(s) ==
    LET signed == s # <<>> /\ Head(s) \in {"+", "-"}
        body   == IF signed THEN Tail(s) ELSE s
    IN IF body = <<>> \/ ~AllIn(body, DigitSet)
       THEN [err |-> <<NewError(<<L("strconv.Atoi: parsing "), Q(s),
                                  L(": invalid syntax")>>, {"ErrSyntax"})>>,
             n |-> 0]
       ELSE IF DigitsGreater(StripZeros(body), MaxIntDigits)
       THEN [err |-> <<>>, n |-> 0]
       ELSE [err |-> <<>>,
             n |-> IF signed /\ Head(s) = "-"
                   THEN 0 - Horner(body, 0) ELSE Horner(body, 0)]

\* strconv.Atoi: a syntax error for an empty or non-decimal string, a range
\* error for a value above the largest int, the value otherwise.
Atoi(s) ==
    LET signed == s # <<>> /\ Head(s) \in {"+", "-"}
        body   == IF signed THEN Tail(s) ELSE s
    IN IF body = <<>> \/ ~AllIn(body, DigitSet)
       THEN [err |-> <<NewError(<<L("strconv.Atoi: parsing "), Q(s),
                                  L(": invalid syntax")>>, {"ErrSyntax"})>>,
             n |-> 0]
       ELSE IF DigitsGreater(StripZeros(body), MaxIntDigits)
       THEN [err |-> <<NewError(<<L("strconv.Atoi: parsing "), Q(s),
                                  L(": value out of range")>>, {"ErrRange"})>>,
             n |-> 0]
       ELSE [err |-> <<>>,
             n |-> IF signed /\ Head(s) = "-"
                   THEN 0 - Horner(body, 0) ELSE Horner(body, 0)]

RECURSIVE ItoaPos(_)
ItoaPos(n) ==
    IF n < Len(Digits) THEN <<Digits[n + 1]>>
    ELSE ItoaPos(n \div Len(Digits)) \o <<Digits[(n % Len(Digits)) + 1]>>

\* strconv.Itoa: the decimal rendering of an int.
Itoa(n) == IF n < 0 THEN <<"-">> \o ItoaPos(0 - n) ELSE ItoaPos(n)

(* ------------------------ the issue URL parser ------------------------- *)

Https == <<"h", "t", "t", "p", "s", ":", "/", "/">>
GithubHost == <<"g", "i", "t", "h", "u", "b">>
Com == <<"c", "o", "m">>
Issues == <<"i", "s", "s", "u", "e", "s">>

\* The text of issueURLPatternRegExp, as it is printed in error messages
\* (the pattern is matched by MatchPattern).
issueURLPatternRegExp == L("<issueURLPatternRegExp>")

\* The part of the pattern after the host: owner, repository, "issues" and
\* the digits, which are the pieces of the rest of the string between "/".
MatchSegments(segs) ==
    /\ Len(segs) = 4
    /\ AllIn(segs[1], AlnumDash)
    /\ AllIn(segs[2], AlnumDash)
    /\ segs[3] = Issues
    /\ segs[4] # <<>>
    /\ AllIn(segs[4], DigitSet)

\* regexp.MatchString(issueURLPatternRegExp, s).  The dot between "github"
\* and "com" is unescaped in the pattern and matches any character but a
\* newline; none of the classes after the host contains "/", so the rest of
\* the string splits at "/" into exactly owner, repository, "issues", digits.
MatchPattern(s) ==
    LET n == Len(Https) + Len(GithubHost)
        m == n + 1 + Len(Com) + 1
    IN /\ Len(s) >= m
       /\ SubSeq(s, 1, n) = Https \o GithubHost
       /\ s[n + 1] # "\n"
       /\ SubSeq(s, n + 2, m) = Com \o <<"/">>
       /\ MatchSegments(Split(SubSeq(s, m + 1, Len(s)), "/"))

\* Characters url.Parse rejects inside a host name.
HostInvalid == {" ", "%"}

\* The characters a scheme is made of.
SchemeChars == LetterSet \cup DigitSet \cup {"+", "-", "."}

\* strings.Cut(s, c): the part of s before the first c, all of s without c.
CutBefore(s, c) ==
    IF IndexOf(s, c) = 0 THEN s ELSE SubSeq(s, 1, IndexOf(s, c) - 1)

\* The part of s from the first c on, empty without c.
FromFirst(s, c) ==
    IF IndexOf(s, c) = 0 THEN <<>> ELSE SubSeq(s, IndexOf(s, c), Len(s))

\* getScheme: the position of the ":" that ends the scheme, 0 when the URL
\* has no scheme, -1 when it starts with ":".
SchemeEnd(u) ==
    LET c == IndexOf(u, ":")
    IN IF c = 1 THEN 0 - 1
       ELSE IF c > 1 /\ AllIn(SubSeq(u, 1, c - 1), SchemeChars) THEN c
       ELSE 0

URLError(s, why) ==
    [err |-> <<NewError(<<L("parse "), Q(s), L(why)>>, {"url.Error"})>>,
     Path |-> <<>>]

\* The authority auth and what follows it.
URLHostPath(s, auth, path) ==
    IF \E i \in DOMAIN auth : auth[i] \in HostInvalid
    THEN URLError(s, ": invalid character in host name")
    ELSE [err |-> <<>>, Path |-> path]

\* What follows the scheme, without the query.
URLAfterQuery(s, hasScheme, rest) ==
    IF ~HasPrefix(rest, <<"/", "/">>)
    THEN [err |-> <<>>,
          Path |-> IF hasScheme /\ ~HasPrefix(rest, <<"/">>) THEN <<>> ELSE rest]
    ELSE URLHostPath(s, CutBefore(SubSeq(rest, 3, Len(rest)), "/"),
                     FromFirst(SubSeq(rest, 3, Len(rest)), "/"))

\* The URL without its fragment, c the end of its scheme.
URLAfterScheme(s, u, c) ==
    IF c < 0 THEN URLError(s, ": missing protocol scheme")
    ELSE URLAfterQuery(s, c > 0, CutBefore(SubSeq(u, c + 1, Len(u)), "?"))

\* url.Parse(s), as far as its Path and its error: the fragment is cut at the
\* first "#", the scheme at the first ":", the query at the first "?"; after
\* "//" the authority runs to the next "/" and the path is what follows.
URLParse(s) == URLAfterScheme(s, CutBefore(s, "#"), SchemeEnd(CutBefore(s, "#")))

\* A *pluginGitHubIssue.
pluginGitHubIssue(owner, repo, number) ==
    [Owner |-> owner, RepoName |-> repo, IssueNumber |-> number]

\* What parseIssueInfoFromURL returns: info is the pointer, err the error (at
\* most one of them non-nil), panic is TRUE when it panicked instead.
ParseOK(info) == [info |-> <<info>>, panic |-> FALSE, err |-> <<>>]
ParseFailed(text, chain) ==
    [info |-> <<>>, panic |-> FALSE, err |-> <<NewError(text, chain)>>]
ParsePanicked == [info |-> <<>>, panic |-> TRUE, err |-> <<>>]

\* The end of parseIssueInfoFromURL: a is the result of strconv.Atoi(arr[4]).
ParseNumber(arr, a) ==
    IF a.err # <<>>
    THEN ParseFailed(<<L("failed to convert issueNumber "), V(arr[5]),
                       L(" to int: ")>> \o a.err[1].text, a.err[1].chain)
    ELSE ParseOK(pluginGitHubIssue(arr[2], arr[3], a.n))

\* parseIssueInfoFromURL after strings.Split: arr[4] (here arr[5]) is read
\* without a check of len(arr).
ParseSegments(arr) ==
    IF Len(arr) < 5 THEN ParsePanicked ELSE ParseNumber(arr, Atoi(arr[5]))

\* parseIssueInfoFromURL after url.Parse.
ParseURL(u) ==
    IF u.err # <<>>
    THEN ParseFailed(<<L("failed to parse provided issue url: ")>>
                     \o u.err[1].text, u.err[1].chain)
    ELSE ParseSegments(Split(u.Path, "/"))

\* parseIssueInfoFromURL(issueURL)
parseIssueInfoFromURL(issueURL) ==
    IF ~MatchPattern(issueURL)
    THEN ParseFailed(<<L("invalid issue url"),
                       L(", issueURL doesn't match pattern: "),
                       issueURLPatternRegExp>>, {})
    ELSE ParseURL(URLParse(issueURL))

(* ------------------------- external collaborators ---------------------- *)

\* What v.githubApp.AccessToken can answer: a 201 whose body holds a token,
\* a 201 whose JSON body holds no "token" field, a 201 whose body is not
\* JSON, a non-success status, a network error, a failure to sign the JWT.
TokenAnswers ==
    {"created", "createdNoToken", "createdBadBody",
     "unauthorized", "networkError", "signError"}

\* What the GitHub REST endpoint can answer to Issues.Get: 200 with the state
\* open, closed or absent, 200 with a body that does not decode, 404,
\* another non-2xx status, or no HTTP response at all.
FetchAnswers ==
    {"open", "closed", "noState", "badBody",
     "notFound", "serverError", "transportError"}

\* The answer of a network call whose context is cancelled.
Canceled == "canceled"

Open == <<"o", "p", "e", "n">>
Closed == <<"c", "l", "o", "s", "e", "d">>

\* An access token: the empty string, or the credential GitHub minted for the
\* id-th exchange with the given scope.
EmptyToken == [id |-> 0, repositories |-> <<>>]
MintedToken(id, tr) == [id |-> id, repositories |-> tr.Repositories]

\* The *githubapp.GitHubApp built from the configuration c: the identity of
\* the app and of its installation.
NewGitHubApp(c) ==
    [AppID |-> c.GitHubAppID, InstallationID |-> c.GitHubAppInstallationID]

\* The URL the token request of the installation is posted to.
AccessTokenURL(app) ==
    <<"https://api.github.com", "/app/installations/", app.InstallationID,
      "/access_tokens">>

\* The text of the *url.Error that http.Client.Do returns for a request
\* that got no response: the method, the quoted URL and the cause.
TransportError(method, u, cause) ==
    <<L(method), L(" "), Q(u), L(": "), L(cause)>>

\* app.AccessToken(ctx, tr): resp is the body handed back, err the error.
AccessToken(app, id, tr, ans) ==
    CASE ans = "created" ->
            [resp |-> [json |-> TRUE, token |-> MintedToken(id, tr)], err |-> <<>>]
      [] ans = "createdNoToken" ->
            [resp |-> [json |-> TRUE, token |-> EmptyToken], err |-> <<>>]
      [] ans = "createdBadBody" ->
            [resp |-> [json |-> FALSE, token |-> EmptyToken], err |-> <<>>]
      [] ans = "unauthorized" ->
            [resp |-> [json |-> FALSE, token |-> EmptyToken],
             err |-> <<NewError(<<L("failed to retrieve token from GitHub - Status: 401 Unauthorized")>>, {})>>]
      [] ans = "networkError" ->
            [resp |-> [json |-> FALSE, token |-> EmptyToken],
             err |-> <<NewError(<<L("error making http request for GitHub app access token ")>>
                                \o TransportError("Post", AccessTokenURL(app),
                                                   "dial tcp: connection refused"),
                                {"net.OpError"})>>]
      [] ans = "signError" ->
            [resp |-> [json |-> FALSE, token |-> EmptyToken],
             err |-> <<NewError(<<L("error generating the JWT for GitHub app access")>>, {})>>]
      [] OTHER ->
            [resp |-> [json |-> FALSE, token |-> EmptyToken],
             err |-> <<NewError(<<L("error making http request for GitHub app access token ")>>
                                \o TransportError("Post", AccessTokenURL(app),
                                                   "context canceled"),
                                {"context.Canceled"})>>]

\* v.client.Issues.Get(ctx, owner, repo, number): issue is the decoded issue
\* (its state), resp the *github.Response (nil when no HTTP response was
\* received), err the error.
IssuesGet(ans) ==
    CASE ans = "open" ->
            [issue |-> <<[State |-> Open]>>, resp |-> <<[StatusCode |-> 200]>>, err |-> <<>>]
      [] ans = "closed" ->
            [issue |-> <<[State |-> Closed]>>, resp |-> <<[StatusCode |-> 200]>>, err |-> <<>>]
      [] ans = "noState" ->
            [issue |-> <<[State |-> <<>>]>>, resp |-> <<[StatusCode |-> 200]>>, err |-> <<>>]
      [] ans = "badBody" ->
            [issue |-> <<>>, resp |-> <<[StatusCode |-> 200]>>,
             err |-> <<NewError(<<L("invalid character in JSON body")>>, {"json.SyntaxError"})>>]
      [] ans = "notFound" ->
            [issue |-> <<>>, resp |-> <<[StatusCode |-> 404]>>,
             err |-> <<NewError(<<L("GET issue: 404 Not Found")>>, {"github.ErrorResponse"})>>]
      [] ans = "serverError" ->
            [issue |-> <<>>, resp |-> <<[StatusCode |-> 500]>>,
             err |-> <<NewError(<<L("GET issue: 500 Internal Server Error")>>, {"github.ErrorResponse"})>>]
      [] ans = "transportError" ->
            [issue |-> <<>>, resp |-> <<>>,
             err |-> <<NewError(<<L("dial tcp: connection refused")>>, {"net.OpError"})>>]
      [] OTHER ->
            [issue |-> <<>>, resp |-> <<>>,
             err |-> <<NewError(<<L("context canceled")>>, {"context.Canceled"})>>]

\* A *github.Client: auth is the token its transport attaches as
\* "Authorization: Bearer <token>", nil for the client given at construction.
NewClient == [auth |-> <<>>]

\* c.WithAuthToken(t): a copy of the client configured to send t, as the
\* method is documented.
WithAuthToken(c, t) == [c EXCEPT !.auth = <<t>>]

(* ------------------------------ Validator ------------------------------ *)

\* A token request that names no repository, which asks for every
\* repository of the installation.
TokenRequestUnscoped(repoName) ==
    [Repositories |-> <<>>,
     Permissions |-> [k \in {"issues"} |-> "read"]]

\* The githubapp.TokenRequest built by getAccessToken.
TokenRequest(repoName) ==
    [Repositories |-> <<repoName>>,
     Permissions |-> [k \in {"issues"} |-> "read"]]

\* getAccessToken, after v.githubApp.AccessToken answered r: the token and
\* the error it returns.
getAccessToken(r) ==
    IF r.err # <<>>
    THEN [t |-> EmptyToken,
          err |-> <<NewError(<<L("failed to get access token"), L(": ")>>
                             \o r.err[1].text, r.err[1].chain)>>]
    ELSE IF ~r.resp.json
    THEN [t |-> EmptyToken,
          err |-> <<NewError(<<L("error unmarshal resp: "),
                               L("invalid character in JSON body")>>,
                             {"json.SyntaxError"})>>]
    ELSE [t |-> r.resp.token, err |-> <<>>]

\* A token error that is wrapped as an invalid justification.
TokenErrorAsInvalid(e) ==
    NewError(errInvalidJustification.text
             \o <<L(": "), L("failed to get access token"), L(": ")>> \o e.text,
             errInvalidJustification.chain \cup e.chain)

\* The error MatchIssue returns when getAccessToken failed with e.
TokenError(e) ==
    NewError(<<L("failed to get access token"), L(": ")>> \o e.text, e.chain)

\* The error MatchIssue returns when parseIssueInfoFromURL failed with e.
ParseError(e) ==
    NewError(errInvalidJustification.text
             \o <<L(": "), L("failed to parse issueURL: ")>> \o e.text,
             errInvalidJustification.chain \cup e.chain)

\* A status test that takes 403 for "not found".
IsNotFoundForbidden(resp) == resp.StatusCode = 403

\* resp.StatusCode == http.StatusNotFound
IsNotFound(resp) == resp.StatusCode = 404

\* The error validateIssue returns for a 404: wraps the sentinel and e.
NotFoundError(e) ==
    NewError(errInvalidJustification.text
             \o <<L(": "), L("issue not found"), L(": ")>> \o e.text,
             errInvalidJustification.chain \cup e.chain)

\* The error validateIssue returns for any other failed fetch: wraps e only.
IssueInfoError(e) ==
    NewError(<<L("failed to get issue info"), L(": ")>> \o e.text, e.chain)

\* A state test that takes an issue without a state for an open one.
IsOpenOrMissing(s) == s \in {Open, <<>>}

\* issue.GetState() == "open"
IsOpen(s) == s = Open

\* The error validateIssue returns for an issue in state s: wraps the sentinel.
NotOpenError(s) ==
    NewError(errInvalidJustification.text
             \o <<L(": "), L("issue is in state: "), V(s),
                  L(", please make sure to use an open issue")>>,
             errInvalidJustification.chain)

\* validateIssue, after Issues.Get answered r: the error it returns, or a
\* panic when resp.StatusCode is read through a nil response.
validateIssue(r) ==
    IF r.err # <<>>
    THEN IF r.resp = <<>>
         THEN [panic |-> TRUE, err |-> <<>>]
         ELSE IF IsNotFound(r.resp[1])
         THEN [panic |-> FALSE, err |-> <<NotFoundError(r.err[1])>>]
         ELSE [panic |-> FALSE, err |-> <<IssueInfoError(r.err[1])>>]
    ELSE IF ~IsOpen(r.issue[1].State)
    THEN [panic |-> FALSE, err |-> <<NotOpenError(r.issue[1].State)>>]
    ELSE [panic |-> FALSE, err |-> <<>>]

(* ----------------------------- GitHubPlugin ---------------------------- *)

githubCategory == <<"g", "i", "t", "h", "u", "b">>

respAnnotationKeyIssueURL == "github_issue_url"
respAnnotationKeyIssueOwner == "github_issue_owner"
respAnnotationKeyIssueRepo == "github_issue_repo"
respAnnotationKeyIssueNumber == "github_issue_number"

\* A nil map.
NilMap == [k \in {} |-> <<>>]

\* What a call returns: resp is the *ValidateJustificationResponse, err the
\* gRPC status error, panic is TRUE when the handler panicked instead of
\* returning.
Return(resp, err) == [resp |-> resp, err |-> err, panic |-> FALSE]
Panicked == [resp |-> <<>>, err |-> <<>>, panic |-> TRUE]
NotReturned == [resp |-> <<>>, err |-> <<>>, panic |-> FALSE]

\* A valid=false response that also carries the message as an annotation.
generateInvalidErrResqAnnotated(s) ==
    [Valid |-> FALSE, Annotation |-> ("error" :> s), Error |-> <<s>>]

\* generateInvalidErrResq(s)
generateInvalidErrResq(s) ==
    [Valid |-> FALSE, Annotation |-> NilMap, Error |-> <<s>>]

\* status.Error(codes.Internal, msg)
StatusInternal(msg) == [code |-> "Internal", msg |-> msg]

\* The text Validate answers to a category other than githubCategory.
CategoryMessage(got) ==
    <<L("failed to perform validation, expected category "), Q(got),
      L(" to be "), Q(githubCategory)>>

\* A category test that only compares the lengths.
CategoryMatchesLength(got) == Len(got) = Len(githubCategory)

\* The category test of Validate.
CategoryMatches(got) == got = githubCategory

\* Annotations with owner and repository exchanged.
AnnotationsSwapped(value, info) ==
    (respAnnotationKeyIssueURL :> value)
    @@ (respAnnotationKeyIssueOwner :> info.RepoName)
    @@ (respAnnotationKeyIssueRepo :> info.Owner)
    @@ (respAnnotationKeyIssueNumber :> Itoa(info.IssueNumber))

\* The annotations of a valid response.
Annotations(value, info) ==
    (respAnnotationKeyIssueURL :> value)
    @@ (respAnnotationKeyIssueOwner :> info.Owner)
    @@ (respAnnotationKeyIssueRepo :> info.RepoName)
    @@ (respAnnotationKeyIssueNumber :> Itoa(info.IssueNumber))

\* Validate, after MatchIssue returned (info, err) for the request's value.
ValidateResult(value, info, err) ==
    IF err # <<>>
    THEN IF ErrorsIs(err[1], "errInvalidJustification")
         THEN Return(<<generateInvalidErrResq(err[1].text)>>, <<>>)
         ELSE Return(<<>>, <<StatusInternal(err[1].text)>>)
    ELSE Return(<<[Valid |-> TRUE, Annotation |-> Annotations(value, info[1]),
                   Error |-> <<>>]>>, <<>>)


\* A PluginConfig.
PluginConfig(appID, installationID, pem, name, hint, baseURL) ==
    [GitHubAppID |-> appID, GitHubAppInstallationID |-> installationID,
     GitHubAppPrivateKeyPEM |-> pem, GitHubPluginDisplayName |-> name,
     GitHubPluginHint |-> hint, GitHubAPIBaseURL |-> baseURL]

\* The base URL cfg.Validate gives a configuration that names none.
DefaultGitHubAPIBaseURL == "https://api.github.com"

\* errors.Join(rErr, e) for a non-nil e: the texts on lines of their own.
ErrorsJoin(rErr, e) ==
    IF rErr = <<>> THEN <<e>>
    ELSE <<NewError(rErr[1].text \o <<L("\n")>> \o e.text,
                    rErr[1].chain \cup e.chain)>>

\* A check that reports an empty field only when none was reported before.
JoinIfEmptyFirstOnly(rErr, value, msg) ==
    IF value = "" /\ rErr = <<>> THEN <<NewError(<<L(msg)>>, {})>> ELSE rErr

\* One check of cfg.Validate: rErr joined with msg when the field is empty.
JoinIfEmpty(rErr, value, msg) ==
    IF value = "" THEN ErrorsJoin(rErr, NewError(<<L(msg)>>, {})) ELSE rErr

\* The error cfg.Validate returns for c: the five checks in their order.
ConfigError(c) ==
    JoinIfEmpty(
      JoinIfEmpty(
        JoinIfEmpty(
          JoinIfEmpty(
            JoinIfEmpty(<<>>, c.GitHubAppID, "GITHUB_APP_ID is empty"),
            c.GitHubAppInstallationID, "GITHUB_APP_INSTALLATION_ID is empty"),
          c.GitHubAppPrivateKeyPEM, "GITHUB_APP_PRIVATE_KEY_PEM is empty"),
        c.GitHubPluginDisplayName, "GITHUB_PLUGIN_DISPLAY_NAME is empty"),
      c.GitHubPluginHint, "GITHUB_PLUGIN_HINT is empty")

\* A default that is set only for a configuration without an error.
ConfigDefaultedIfValid(c) ==
    IF c.GitHubAPIBaseURL = "" /\ ConfigError(c) = <<>>
    THEN [c EXCEPT !.GitHubAPIBaseURL = DefaultGitHubAPIBaseURL]
    ELSE c

\* The configuration as cfg.Validate leaves it.
ConfigDefaulted(c) ==
    IF c.GitHubAPIBaseURL = ""
    THEN [c EXCEPT !.GitHubAPIBaseURL = DefaultGitHubAPIBaseURL]
    ELSE c

\* A UIData whose display name and hint are exchanged.
NewUIDataSwapped(c) ==
    <<[DisplayName |-> c.GitHubPluginHint, Hint |-> c.GitHubPluginDisplayName]>>

\* The uiData field NewGitHubPlugin gives the plugin it builds from c.
NewUIData(c) ==
    <<[DisplayName |-> c.GitHubPluginDisplayName, Hint |-> c.GitHubPluginHint]>>

\* What GetUIData returns: data is the *UIData, err the error; returned is
\* FALSE as long as no call has returned, after counts the Validate calls
\* started before this one.
UIReturn(data, err, after) ==
    [data |-> data, err |-> err, returned |-> TRUE, after |-> after]
UINotReturned == [data |-> <<>>, err |-> <<>>, returned |-> FALSE, after |-> 0]

(* ----------------------------- ServerCommand --------------------------- *)

\* The steps of RunUnstarted that can fail, in the order of the code.
StepOrder == <<"flags", "args", "config", "signer", "app", "install">>

\* An order that parses the private key before it validates the
\* configuration.
StepAfterKeyFirst(step) ==
    CASE step = "flags" -> "args"
      [] step = "args" -> "signer"
      [] step = "signer" -> "config"
      [] step = "config" -> "app"
      [] step = "app" -> "install"
      [] OTHER -> "plugin"

\* The step RunUnstarted goes on with when step succeeded.
StepAfter(step) ==
    CASE step = "flags" -> "args"
      [] step = "args" -> "config"
      [] step = "config" -> "signer"
      [] step = "signer" -> "app"
      [] step = "app" -> "install"
      [] OTHER -> "plugin"

\* A ServerCommand on which RunUnstarted is about to run: whether its flags
\* parse, the positional arguments left, and whether the app can be created
\* and its installation found.
NewCommand(flagsOK, args, appOK, installOK) ==
    [pc |-> "flags", flagsOK |-> flagsOK, args |-> args, appOK |-> appOK,
     installOK |-> installOK, steps |-> <<>>,
     ret |-> [plugin |-> <<>>, err |-> <<>>]]

\* RunUnstarted returns (nil, err) at the given step.
Stopped(c, step, text, cause) ==
    [c EXCEPT !.pc = "done", !.steps = Append(@, step),
        !.ret = [plugin |-> <<>>,
                 err |-> <<NewError(<<L(text)>> \o cause.text, cause.chain)>>]]

\* RunUnstarted goes past the given step.
Passed(c, step) ==
    [c EXCEPT !.pc = StepAfter(step), !.steps = Append(@, step)]

\* The private key PEM that parses.
TestRSAPrivateKey == "<RSA PRIVATE KEY>"

\* NewGitHubPlugin(ctx, ghClient, ghInstall, cfg)
NewGitHubPlugin(c) ==
    [client |-> NewClient, githubApp |-> NewGitHubApp(c), uiData |-> NewUIData(c)]

\* The command after RunUnstarted returned the plugin of configuration c.
Served(c) ==
    [NewCommand(TRUE, <<>>, TRUE, TRUE) EXCEPT
        !.pc = "done", !.steps = StepOrder,
        !.ret = [plugin |-> <<NewGitHubPlugin(c)>>, err |-> <<>>]]

(* ------------------------------- inputs -------------------------------- *)

IssueURL(dot, owner, repo, number) ==
    Https \o GithubHost \o dot \o Com \o <<"/">> \o owner \o <<"/">> \o repo
    \o <<"/">> \o Issues \o <<"/">> \o number

\* More digits than the largest int has.
TooManyDigits == MaxIntDigits \o <<"0">>

\* The justification values submitted: two issues of different repositories
\* (one written with a leading zero), a URL without the issue segments, one
\* with an empty repository, one whose number exceeds the int range, and
\* one with "?" where the host has its dot.
Values ==
    {IssueURL(<<".">>, <<"o">>, <<"r">>, <<"0", "7">>),
     IssueURL(<<".">>, <<"o">>, <<"s">>, <<"1", "0">>),
     Https \o GithubHost \o <<".">> \o Com \o <<"/", "o", "/", "r">>,
     IssueURL(<<".">>, <<"o">>, <<>>, <<"1">>),
     IssueURL(<<".">>, <<"o">>, <<"r">>, TooManyDigits),
     IssueURL(<<"?">>, <<"o">>, <<"r">>, <<"1">>)}

\* The categories submitted besides githubCategory.
OtherCategories == {<<>>, <<"G", "i", "t", "h", "u", "b">>, <<"j", "i", "r", "a">>}

\* The requests submitted to Validate.
Requests ==
    {[Category |-> githubCategory, Value |-> v] : v \in Values}
    \cup {[Category |-> c, Value |-> IssueURL(<<".">>, <<"o">>, <<"r">>, <<"0", "7">>)] :
            c \in OtherCategories}

\* The goroutines that serve Validate calls of the one plugin instance.
Procs == {"g1", "g2"}

\* The configuration the server was started with, and the configurations
\* the display data is checked for.
ServerConfig ==
    PluginConfig("123456", "12345678", TestRSAPrivateKey, "test DisplayName",
                 "test Hint", "https://api.github.com")
Configs ==
    {ServerConfig,
     PluginConfig("654321", "87654321", TestRSAPrivateKey, "GitHub Issue",
                  "https://github.com/o/r/issues/1", "https://api.github.com")}

\* The configurations handed to cfg.Validate: every field empty or not,
\* the base URL empty, the default or another one.
ConfigInputs ==
    {PluginConfig(a, i, k, n, h, b) :
        a \in {"", "123456"}, i \in {"", "12345678"},
        k \in {"", TestRSAPrivateKey}, n \in {"", "test DisplayName"},
        h \in {"", "test Hint"},
        b \in {"", DefaultGitHubAPIBaseURL, "https://ghe.example.com/api/v3"}}

\* The configurations the server is started with: with or without an app
\* id and a hint, the key missing, malformed or well-formed.
StartConfigs ==
    {PluginConfig(a, "12345678", k, "test DisplayName", h, b) :
        a \in {"", "123456"}, k \in {"", "invalid_pem", TestRSAPrivateKey},
        h \in {"", "test Hint"},
        b \in {"", "https://ghe.example.com/api/v3"}}

\* The commands RunUnstarted is run on.
Commands ==
    {NewCommand(f, a, g, i) :
        f \in BOOLEAN, a \in {<<>>, <<"foo">>}, g \in BOOLEAN, i \in BOOLEAN}

\* The requests submitted while the display data is read: an issue, a
\* category other than githubCategory, a URL without the issue segments.
UIRequests ==
    {r \in Requests :
        \/ r.Category # githubCategory
        \/ r.Value = IssueURL(<<".">>, <<"o">>, <<"r">>, <<"0", "7">>)
        \/ r.Value = Https \o GithubHost \o <<".">> \o Com \o <<"/", "o", "/", "r">>}

\* The strings handed to the parser on its own.  Each is scheme and host up
\* to the dot, the character in the place of the dot, "com/", an owner, a
\* repository, and a tail.
Http == <<"h", "t", "t", "p", ":", "/", "/">>
Prefixes ==
    {Https \o GithubHost, Http \o GithubHost,
     Https \o <<"g", "i", "t", "l", "a", "b">>}
Dots == {<<".">>, <<"x">>, <<"?">>, <<"#">>, <<"/">>, <<" ">>, <<"\n">>, <<>>}
Owners == {<<"o">>, <<>>, <<"a", "-", "1">>}
Repos == {<<"r">>, <<>>, <<"r", "_">>}
Slash(seg) == <<"/">> \o seg
Tails ==
    {Slash(Issues) \o Slash(n) :
        n \in {<<"7">>, <<"0", "7">>, <<"1", "0">>, <<"0">>, <<>>, <<"7", "a">>,
               <<"-", "7">>, <<"7", "/", "x">>, <<"7", "/">>, <<"7", "?", "q">>,
               <<"7", "#", "f">>, MaxIntDigits \o <<"0">>}}
    \cup {<<>>, Slash(<<"p", "u", "l", "l">>) \o Slash(<<"7">>)}
IssueURLs ==
    {pre \o dot \o Com \o Slash(owner) \o Slash(repo) \o tail :
        pre \in Prefixes, dot \in Dots, owner \in Owners, repo \in Repos,
        tail \in Tails}

(* ------------------------------- state --------------------------------- *)

VARIABLES
    client,   \* v.client, the field of the one Validator instance
    started,  \* number of Validate calls started so far
    calls,    \* per goroutine: the call it is serving, or served last
    cfg,      \* the configuration the plugin was constructed from
    uiData,   \* g.uiData, the field of the one GitHubPlugin instance
    uiRet,    \* what GetUIData returned last
    issueURL, \* the string handed to parseIssueInfoFromURL on its own
    parsed,   \* what it returned: empty before the call
    given,    \* the PluginConfig as it was before cfg.Validate was called
    config,   \* the PluginConfig cfg.Validate is called on
    results,  \* the errors its calls returned so far
    cmd       \* the ServerCommand and how far RunUnstarted has come

vars ==
    <<client, started, calls, cfg, uiData, uiRet, issueURL, parsed,
      given, config, results, cmd>>

\* The state of the plugin's display data, and of the parser run on its own.
uiVars == <<cfg, uiData, uiRet>>
parseVars == <<issueURL, parsed>>

\* The state of the start of the server: the configuration under validation.
startupVars == <<given, config, results, cmd>>

\* A goroutine that has served no call yet.
IdleCall ==
    [pc |-> "idle", k |-> 0, req |-> [Category |-> <<>>, Value |-> <<>>],
     cancelled |-> FALSE, matcherInvoked |-> FALSE,
     info |-> <<>>, tr |-> <<>>, tokenRequests |-> 0, fetchRequests |-> 0,
     tokenAnswer |-> "", fetchAnswer |-> "",
     t |-> <<>>, bearer |-> <<>>,
     matchInfo |-> <<>>, matchErr |-> <<>>, ret |-> NotReturned]

\* The plugin NewGitHubPlugin builds from the configuration c, before any
\* call.
Constructed(c) ==
    /\ client = NewClient
    /\ started = 0
    /\ calls = [p \in Procs |-> IdleCall]
    /\ cfg = c
    /\ uiData = NewUIData(c)
    /\ uiRet = UINotReturned

\* The configuration c as the flags and the environment gave it, before any
\* call of cfg.Validate.
ConfigLoaded(c) ==
    /\ given = c
    /\ config = c
    /\ results = <<>>

\* The server whose RunUnstarted returned the plugin of ServerConfig.
ServerStarted ==
    /\ ConfigLoaded(ServerConfig)
    /\ cmd = Served(ServerConfig)

Init ==
    /\ Constructed(ServerConfig)
    /\ ServerStarted
    /\ issueURL = <<>>
    /\ parsed = <<>>

\* A plugin that answers only its first call and rejects every later one.
StartedOnce(c0, pr) ==
    IF c0.k > 1 \/ ~CategoryMatches(c0.req.Category)
    THEN [c0 EXCEPT !.pc = "done",
            !.ret = Return(<<generateInvalidErrResq(
                                CategoryMessage(c0.req.Category))>>, <<>>)]
    ELSE IF pr.panic
    THEN [c0 EXCEPT !.pc = "done", !.matcherInvoked = TRUE, !.ret = Panicked]
    ELSE IF pr.err # <<>>
    THEN [c0 EXCEPT !.pc = "done", !.matcherInvoked = TRUE,
            !.matchErr = <<ParseError(pr.err[1])>>,
            !.ret = ValidateResult(c0.req.Value, <<>>, <<ParseError(pr.err[1])>>)]
    ELSE [c0 EXCEPT !.pc = "token", !.matcherInvoked = TRUE,
            !.info = pr.info,
            !.tr = <<TokenRequest(pr.info[1].RepoName)>>,
            !.tokenRequests = 1]

\* The call c0 after Validate's category test and MatchIssue's parse, which
\* returned pr: answered at once, or waiting for the GitHub App's token.
Started(c0, pr) ==
    IF ~CategoryMatches(c0.req.Category)
    THEN [c0 EXCEPT !.pc = "done",
            !.ret = Return(<<generateInvalidErrResq(
                                CategoryMessage(c0.req.Category))>>, <<>>)]
    ELSE IF pr.panic
    THEN [c0 EXCEPT !.pc = "done", !.matcherInvoked = TRUE, !.ret = Panicked]
    ELSE IF pr.err # <<>>
    THEN [c0 EXCEPT !.pc = "done", !.matcherInvoked = TRUE,
            !.matchErr = <<ParseError(pr.err[1])>>,
            !.ret = ValidateResult(c0.req.Value, <<>>, <<ParseError(pr.err[1])>>)]
    ELSE [c0 EXCEPT !.pc = "token", !.matcherInvoked = TRUE,
            !.info = pr.info,
            !.tr = <<TokenRequest(pr.info[1].RepoName)>>,
            !.tokenRequests = 1]

\* Validate(ctx, req) up to its first network call: the category test, then
\* MatchIssue's parse and getAccessToken's request to the GitHub App.
StartValidate(p, req, cancelled) ==
    /\ calls[p].pc \in {"idle", "done"}
    /\ started < MaxCalls
    /\ started' = started + 1
    /\ calls' = [calls EXCEPT ![p] =
            Started([IdleCall EXCEPT !.k = started + 1, !.req = req,
                                     !.cancelled = cancelled],
                    parseIssueInfoFromURL(req.Value))]
    /\ UNCHANGED <<client, uiVars, parseVars, startupVars>>

\* A call that goes on to the issue request although the token request
\* failed.
TokenFailedFetching(c, ans, e) ==
    [c EXCEPT !.pc = "authed", !.tokenAnswer = ans, !.t = <<EmptyToken>>]

\* A call that asks for a token again after the request failed.
TokenFailedRetried(c, ans, e) ==
    [c EXCEPT !.tokenAnswer = ans, !.tokenRequests = @ + 1]

\* The call c after getAccessToken failed with e on the answer ans:
\* MatchIssue and Validate return at once.
TokenFailed(c, ans, e) ==
    [c EXCEPT !.pc = "done", !.tokenAnswer = ans,
        !.matchErr = <<TokenError(e)>>,
        !.ret = ValidateResult(c.req.Value, <<>>, <<TokenError(e)>>)]

\* The GitHub App answers the token request: getAccessToken returns, and
\* MatchIssue either fails or stores the authenticated client in v.client.
TokenReply(p, ans) ==
    /\ calls[p].pc = "token"
    /\ ans \in (IF calls[p].cancelled THEN {Canceled} ELSE TokenAnswers)
    /\ LET c == calls[p]
           r == getAccessToken(AccessToken(NewGitHubApp(cfg), c.k, c.tr[1], ans))
       IN IF r.err # <<>>
          THEN /\ calls' = [calls EXCEPT ![p] = TokenFailed(c, ans, r.err[1])]
               /\ UNCHANGED client
          ELSE /\ calls' = [calls EXCEPT ![p] =
                    [c EXCEPT !.pc = "authed", !.tokenAnswer = ans,
                              !.t = <<r.t>>]]
               /\ client' = WithAuthToken(client, r.t)
    /\ UNCHANGED <<started, uiVars, parseVars, startupVars>>

\* validateIssue reads v.client and sends the issue request through it.
FetchSend(p) ==
    /\ calls[p].pc = "authed"
    /\ calls' = [calls EXCEPT ![p] =
            [@ EXCEPT !.pc = "fetch", !.bearer = client.auth,
                      !.fetchRequests = @ + 1]]
    /\ UNCHANGED <<client, started, uiVars, parseVars, startupVars>>

\* The issue request is answered: validateIssue, MatchIssue and Validate
\* return.
FetchReply(p, ans) ==
    /\ calls[p].pc = "fetch"
    /\ ans \in (IF calls[p].cancelled THEN {Canceled} ELSE FetchAnswers)
    /\ LET c == calls[p]
           r == validateIssue(IssuesGet(ans))
       IN calls' = [calls EXCEPT ![p] =
            IF r.panic
            THEN [c EXCEPT !.pc = "done", !.fetchAnswer = ans, !.ret = Panicked]
            ELSE [c EXCEPT !.pc = "done", !.fetchAnswer = ans,
                    !.matchInfo = c.info, !.matchErr = r.err,
                    !.ret = ValidateResult(c.req.Value, c.info, r.err)]]
    /\ UNCHANGED <<client, started, uiVars, parseVars, startupVars>>

\* The caller cancels the context of a call in progress.
Cancel(p) ==
    /\ calls[p].pc \in {"token", "authed", "fetch"}
    /\ ~calls[p].cancelled
    /\ calls' = [calls EXCEPT ![p] = [@ EXCEPT !.cancelled = TRUE]]
    /\ UNCHANGED <<client, started, uiVars, parseVars, startupVars>>

Next ==
    \/ \E p \in Procs, req \in Requests, cancelled \in BOOLEAN :
            StartValidate(p, req, cancelled)
    \/ \E p \in Procs, ans \in TokenAnswers \cup {Canceled} : TokenReply(p, ans)
    \/ \E p \in Procs : FetchSend(p)
    \/ \E p \in Procs, ans \in FetchAnswers \cup {Canceled} : FetchReply(p, ans)
    \/ \E p \in Procs : Cancel(p)

Spec == Init /\ [][Next]_vars

\* GetUIData(ctx, req)
GetUIData ==
    /\ uiRet' = UIReturn(uiData, <<>>, started)
    /\ UNCHANGED <<client, started, calls, cfg, uiData, parseVars, startupVars>>

\* The plugin of any of the configurations, serving Validate and GetUIData.
InitUI ==
    /\ \E c \in Configs : Constructed(c)
    /\ ServerStarted
    /\ issueURL = <<>>
    /\ parsed = <<>>

NextUI ==
    \/ \E p \in Procs, req \in UIRequests, cancelled \in BOOLEAN :
            StartValidate(p, req, cancelled)
    \/ \E p \in Procs, ans \in TokenAnswers \cup {Canceled} : TokenReply(p, ans)
    \/ \E p \in Procs : FetchSend(p)
    \/ \E p \in Procs, ans \in FetchAnswers \cup {Canceled} : FetchReply(p, ans)
    \/ \E p \in Procs : Cancel(p)
    \/ GetUIData

SpecUI == InitUI /\ [][NextUI]_vars

\* parseIssueInfoFromURL called on its own with one of IssueURLs.
Parse ==
    /\ parsed = <<>>
    /\ parsed' = <<parseIssueInfoFromURL(issueURL)>>
    /\ UNCHANGED <<client, started, calls, uiVars, issueURL, startupVars>>

InitParse ==
    /\ Constructed(ServerConfig)
    /\ ServerStarted
    /\ issueURL \in IssueURLs
    /\ parsed = <<>>

NextParse == Parse

SpecParse == InitParse /\ [][NextParse]_vars

\* cfg.Validate(), called on the configuration once more.
PluginConfigValidate ==
    /\ Len(results) < MaxValidations
    /\ results' = Append(results, ConfigError(config))
    /\ config' = ConfigDefaulted(config)
    /\ UNCHANGED <<client, started, calls, uiVars, parseVars, given, cmd>>

InitConfig ==
    /\ Constructed(ServerConfig)
    /\ \E c \in ConfigInputs : ConfigLoaded(c)
    /\ cmd = NewCommand(TRUE, <<>>, TRUE, TRUE)
    /\ issueURL = <<>>
    /\ parsed = <<>>

NextConfig == PluginConfigValidate

SpecConfig == InitConfig /\ [][NextConfig]_vars

\* RunUnstarted: f.Parse(args)
ParseFlags ==
    /\ cmd.pc = "flags"
    /\ cmd' = IF cmd.flagsOK THEN Passed(cmd, "flags")
              ELSE Stopped(cmd, "flags", "failed to parse flags: ",
                           NewError(<<L("flag provided but not defined")>>, {}))
    /\ UNCHANGED <<client, started, calls, uiVars, parseVars, given, config, results>>

\* RunUnstarted: the test of the positional arguments left by the flags.
CheckArgs ==
    /\ cmd.pc = "args"
    /\ cmd' = IF cmd.args = <<>> THEN Passed(cmd, "args")
              ELSE Stopped(cmd, "args", "unexpected arguments: ",
                           NewError(<<Q(cmd.args)>>, {}))
    /\ UNCHANGED <<client, started, calls, uiVars, parseVars, given, config, results>>

\* RunUnstarted: c.cfg.Validate()
ValidateConfig ==
    /\ cmd.pc = "config"
    /\ results' = Append(results, ConfigError(config))
    /\ config' = ConfigDefaulted(config)
    /\ cmd' = IF ConfigError(config) = <<>> THEN Passed(cmd, "config")
              ELSE Stopped(cmd, "config", "invalid configuration: ",
                           ConfigError(config)[1])
    /\ UNCHANGED <<client, started, calls, uiVars, parseVars, given>>

\* RunUnstarted: githubauth.NewPrivateKeySigner(c.cfg.GitHubAppPrivateKeyPEM)
NewPrivateKeySigner ==
    /\ cmd.pc = "signer"
    /\ cmd' = IF config.GitHubAppPrivateKeyPEM = TestRSAPrivateKey
              THEN Passed(cmd, "signer")
              ELSE Stopped(cmd, "signer", "failed to parse private key: ",
                           NewError(<<L("failed to decode PEM")>>, {}))
    /\ UNCHANGED <<client, started, calls, uiVars, parseVars, given, config, results>>

\* RunUnstarted: githubauth.NewApp(c.cfg.GitHubAppID, signer, ...)
NewApp ==
    /\ cmd.pc = "app"
    /\ cmd' = IF cmd.appOK THEN Passed(cmd, "app")
              ELSE Stopped(cmd, "app", "failed to create github app: ",
                           NewError(<<L("invalid option")>>, {}))
    /\ UNCHANGED <<client, started, calls, uiVars, parseVars, given, config, results>>

\* RunUnstarted: ghApp.InstallationForID(ctx, c.cfg.GitHubAppInstallationID)
InstallationForID ==
    /\ cmd.pc = "install"
    /\ cmd' = IF cmd.installOK THEN Passed(cmd, "install")
              ELSE Stopped(cmd, "install", "failed to get github installation: ",
                           NewError(<<L("installation not found")>>, {}))
    /\ UNCHANGED <<client, started, calls, uiVars, parseVars, given, config, results>>

\* RunUnstarted: plugin.NewGitHubPlugin(ctx, ghClient, ghInstall, c.cfg) and
\* the return of the plugin.
ReturnPlugin ==
    /\ cmd.pc = "plugin"
    /\ cmd' = [cmd EXCEPT !.pc = "done",
                !.ret = [plugin |-> <<NewGitHubPlugin(config)>>, err |-> <<>>]]
    /\ UNCHANGED <<client, started, calls, uiVars, parseVars, given, config, results>>

InitServer ==
    /\ Constructed(ServerConfig)
    /\ \E c \in StartConfigs : ConfigLoaded(c)
    /\ cmd \in Commands
    /\ issueURL = <<>>
    /\ parsed = <<>>

NextServer ==
    \/ ParseFlags
    \/ CheckArgs
    \/ ValidateConfig
    \/ NewPrivateKeySigner
    \/ NewApp
    \/ InstallationForID
    \/ ReturnPlugin

SpecServer == InitServer /\ [][NextServer]_vars


(* ------------------------------ properties ----------------------------- *)

\* The calls that have returned (or panicked).
Done(p) == calls[p].pc = "done"

\* The call returned the response r and no fault.
Responded(p, r) == calls[p].ret = [resp |-> <<r>>, err |-> <<>>, panic |-> FALSE]

\* The call returned no response but a fault of gRPC code Internal whose
\* text contains the fragments sub.
Faulted(p, sub) ==
    /\ ~calls[p].ret.panic
    /\ calls[p].ret.resp = <<>>
    /\ Len(calls[p].ret.err) = 1
    /\ calls[p].ret.err[1].code = "Internal"
    /\ Contains(calls[p].ret.err[1].msg, sub)

\* MatchIssue returned an error that wraps the invalid-justification
\* sentinel and contains sub, and Validate answered valid=false with that
\* error's text as its single message, without a fault.
Rejected(p, sub) ==
    /\ Len(calls[p].matchErr) = 1
    /\ "errInvalidJustification" \in calls[p].matchErr[1].chain
    /\ Contains(calls[p].matchErr[1].text, sub)
    /\ Responded(p, [Valid |-> FALSE, Annotation |-> NilMap,
                     Error |-> <<calls[p].matchErr[1].text>>])

\* C1: a request whose category is not exactly "github" is answered
\* valid=false with the single message
\* `failed to perform validation, expected category "<got>" to be "github"`,
\* without a fault, without invoking the issue matcher and without any
\* token exchange or issue fetch.
C1_WrongCategoryRejected ==
    \A p \in Procs :
        (calls[p].pc # "idle" /\ calls[p].req.Category # <<"g", "i", "t", "h", "u", "b">>)
        => /\ Done(p)
           /\ Responded(p,
                [Valid |-> FALSE, Annotation |-> NilMap,
                 Error |-> << <<L("failed to perform validation, expected category "),
                                Q(calls[p].req.Category), L(" to be "),
                                Q(<<"g", "i", "t", "h", "u", "b">>)>> >>])
           /\ ~calls[p].matcherInvoked
           /\ calls[p].tokenRequests = 0
           /\ calls[p].fetchRequests = 0

C1_Witness ==
    \E p \in Procs :
        /\ Done(p)
        /\ calls[p].req.Category = <<"G", "i", "t", "h", "u", "b">>
        /\ ~calls[p].ret.panic
        /\ Len(calls[p].ret.resp) = 1

\* The requests C2 is about: category "github", a value the parser accepts,
\* a token exchange that succeeded and an issue fetched in state "open".
C2_Case(p) ==
    /\ Done(p)
    /\ calls[p].req.Category = githubCategory
    /\ Len(parseIssueInfoFromURL(calls[p].req.Value).info) = 1
    /\ calls[p].tokenAnswer \in {"created", "createdNoToken"}
    /\ calls[p].fetchAnswer = "open"

\* The annotation values C2 expects under the four given keys.
C2_Values(p, ann, kURL, kOwner, kRepo, kNumber) ==
    LET ref == parseIssueInfoFromURL(calls[p].req.Value).info[1]
    IN /\ DOMAIN ann = {kURL, kOwner, kRepo, kNumber}
       /\ ann[kURL] = calls[p].req.Value
       /\ ann[kOwner] = ref.Owner
       /\ ann[kRepo] = ref.RepoName
       /\ ann[kNumber] = Itoa(ref.IssueNumber)

C3_NotOpenRejected ==
    \A p \in Procs :
        /\ (Done(p) /\ calls[p].fetchAnswer = "closed")
            => Rejected(p, <<L("issue is in state: "), V(<<"c", "l", "o", "s", "e", "d">>)>>)
        /\ (Done(p) /\ calls[p].fetchAnswer = "noState")
            => Rejected(p, <<L("issue is in state: "), V(<<>>)>>)

C3_Witness ==
    /\ \E p \in Procs : Done(p) /\ calls[p].fetchAnswer = "closed"
                        /\ Len(calls[p].ret.resp) = 1
    /\ \E p \in Procs : Done(p) /\ calls[p].fetchAnswer = "noState"
                        /\ Len(calls[p].ret.resp) = 1

\* C4: an issue fetch answered with HTTP 404 is an invalid justification:
\* the error wraps the sentinel and contains "issue not found", and
\* Validate answers valid=false with that message and no fault.
C4_NotFoundRejected ==
    \A p \in Procs :
        (Done(p) /\ calls[p].fetchAnswer = "notFound")
        => Rejected(p, <<L("issue not found")>>)

C4_Witness ==
    \E p \in Procs :
        /\ Done(p)
        /\ calls[p].fetchAnswer = "notFound"
        /\ Len(calls[p].ret.resp) = 1
        /\ ~calls[p].ret.resp[1].Valid

\* The answers with which a token exchange fails.
TokenFailures ==
    {"unauthorized", "networkError", "signError", "createdBadBody", Canceled}

\* C5: a failed token exchange (signing error, non-success status, network
\* error, body that does not unwrap) is an internal fault containing
\* "failed to get access token": the error does not wrap the sentinel, and
\* Validate returns no response but a fault of code Internal.
C5_TokenFailureIsFault ==
    \A p \in Procs :
        (Done(p) /\ calls[p].tokenAnswer \in TokenFailures)
        => /\ Len(calls[p].matchErr) = 1
           /\ "errInvalidJustification" \notin calls[p].matchErr[1].chain
           /\ Contains(calls[p].matchErr[1].text, <<L("failed to get access token")>>)
           /\ calls[p].matchInfo = <<>>
           /\ Faulted(p, <<L("failed to get access token")>>)
           /\ calls[p].fetchRequests = 0

C5_Witness ==
    /\ \E p \in Procs : Done(p) /\ calls[p].tokenAnswer = "unauthorized"
                        /\ Len(calls[p].ret.err) = 1
    /\ \E p \in Procs : Done(p) /\ calls[p].tokenAnswer = "createdBadBody"
                        /\ Len(calls[p].ret.err) = 1

\* C6 as stated: an issue fetch that fails other than by HTTP 404 (another
\* non-2xx status, a transport error without any HTTP response, a 200 with
\* a malformed body) ends as an internal fault containing "failed to get
\* issue info", and the call returns normally with that fault.
C6_FetchFailureIsFault ==
    \A p \in Procs :
        (Done(p) /\ calls[p].fetchAnswer \in {"serverError", "transportError", "badBody"})
        => Faulted(p, <<L("failed to get issue info")>>)

\* C7 as stated: a call with category "github" and a well-formed URL whose
\* context is cancelled before or during the token exchange or during the
\* issue fetch returns an internal fault, never valid=false or valid=true.
C7_CancelIsFault ==
    \A p \in Procs :
        (/\ Done(p)
         /\ calls[p].cancelled
         /\ calls[p].req.Category = githubCategory
         /\ Len(calls[p].info) = 1)
        => Faulted(p, <<>>)

\* C8 as stated: with concurrent Validate calls on one plugin instance,
\* each call's issue fetch is authenticated with the token of that call's
\* own token exchange, never with a token scoped to another call's
\* repository.
C8_FetchUsesOwnToken ==
    \A p \in Procs :
        calls[p].fetchRequests > 0
        => /\ calls[p].bearer = calls[p].t
           /\ calls[p].bearer[1].id # 0
                => calls[p].bearer[1].repositories = <<calls[p].info[1].RepoName>>

\* C9 as stated: over the MatchIssue calls of one Validator instance, the
\* k-th call's issue fetch carries the token of the k-th token exchange; a
\* token obtained by another call is never sent by this one.
C9_TokenNeverReused ==
    \A p \in Procs :
        (calls[p].fetchRequests > 0 /\ calls[p].tokenAnswer = "created")
        => /\ Len(calls[p].bearer) = 1
           /\ calls[p].bearer[1].id = calls[p].k

\* C10: every token request issued for a reference (owner, repo, n) names
\* exactly the one repository of the reference and exactly the permission
\* {issues: read}; and a call issues at most one such request.
C10_TokenScopeIsMinimal ==
    \A p \in Procs :
        calls[p].tokenRequests > 0
        => /\ Len(calls[p].tr) = 1
           /\ calls[p].tr[1].Repositories
                = <<parseIssueInfoFromURL(calls[p].req.Value).info[1].RepoName>>
           /\ DOMAIN calls[p].tr[1].Permissions = {"issues"}
           /\ calls[p].tr[1].Permissions["issues"] = "read"
           /\ calls[p].t # <<>> /\ calls[p].t[1].id # 0
                => calls[p].t[1].repositories = calls[p].tr[1].Repositories

C10_Witness ==
    \E p \in Procs :
        /\ calls[p].tokenRequests > 0
        /\ calls[p].tr[1].Repositories = << <<"s">> >>
        /\ calls[p].tokenAnswer = "created"

\* The strings of the shape https://github.com/{owner}/{repo}/issues/{n},
\* {n} a non-empty string of decimal digits, and their segments.
ShapePrefix == Https \o GithubHost \o <<".">> \o Com \o <<"/">>
ShapeSegments(u) == Split(SubSeq(u, Len(ShapePrefix) + 1, Len(u)), "/")
HasShape(u) ==
    /\ HasPrefix(u, ShapePrefix)
    /\ Len(ShapeSegments(u)) = 4
    /\ ShapeSegments(u)[3] = Issues
    /\ ShapeSegments(u)[4] # <<>>
    /\ AllIn(ShapeSegments(u)[4], DigitSet)

\* A reference written back as https://github.com/<owner>/<repo>/issues/<number>.
Render(info) ==
    ShapePrefix \o info.Owner \o <<"/">> \o info.RepoName \o <<"/">> \o Issues
    \o <<"/">> \o Itoa(info.IssueNumber)

\* C11: for every URL of the shape https://github.com/{owner}/{repo}/issues/{n}
\* with {n} decimal digits, parseIssueInfoFromURL returns a reference whose
\* owner and repository are the URL's segments, whose number is the value of
\* {n}, and which written back as a URL gives the input.
C11_ParseLosesNothing ==
    (parsed # <<>> /\ HasShape(issueURL))
    => /\ ~parsed[1].panic
       /\ parsed[1].err = <<>>
       /\ Len(parsed[1].info) = 1
       /\ parsed[1].info[1].Owner = ShapeSegments(issueURL)[1]
       /\ parsed[1].info[1].RepoName = ShapeSegments(issueURL)[2]
       /\ parsed[1].info[1].IssueNumber = Horner(ShapeSegments(issueURL)[4], 0)
       /\ Render(parsed[1].info[1]) = issueURL

\* C12: parseIssueInfoFromURL fails for every string that is not of the
\* shape https://github.com/{owner}/{repo}/issues/{n} (a missing issues
\* segment, a last segment that is not all digits, more segments, a query or
\* a fragment, another scheme, a host other than github.com), with an error
\* that names the expected pattern.
C12_DeviationsFail ==
    (parsed # <<>> /\ ~HasShape(issueURL))
    => /\ ~parsed[1].panic
       /\ Len(parsed[1].err) = 1
       /\ Contains(parsed[1].err[1].text, <<issueURLPatternRegExp>>)

\* The call ended inside MatchIssue before any token request: the parser
\* did not accept the justification value.
ParseFailure(p) ==
    /\ Done(p)
    /\ calls[p].matcherInvoked
    /\ calls[p].tokenRequests = 0

\* C13: every parse failure of the justification value ends as an invalid
\* justification: MatchIssue returns an error that wraps the sentinel and
\* contains "invalid issue url", and Validate answers valid=false with that
\* error's text and no fault.
C13_ParseFailureRejected ==
    \A p \in Procs : ParseFailure(p) => Rejected(p, <<L("invalid issue url")>>)

\* The three outcomes of a call.
OutcomeValid(r) ==
    ~r.panic /\ r.err = <<>> /\ Len(r.resp) = 1 /\ r.resp[1].Valid
OutcomeInvalidJustification(r) ==
    ~r.panic /\ r.err = <<>> /\ Len(r.resp) = 1 /\ ~r.resp[1].Valid
OutcomeInternalError(r) ==
    ~r.panic /\ r.resp = <<>> /\ Len(r.err) = 1

\* C14: every Validate call that has ended produced exactly one of the
\* outcomes Valid, InvalidJustification and InternalError; none ends in two
\* of them or in none.
C14_ExactlyOneOutcome ==
    \A p \in Procs :
        Done(p)
        => Cardinality({o \in {"Valid", "InvalidJustification", "InternalError"} :
                \/ o = "Valid" /\ OutcomeValid(calls[p].ret)
                \/ o = "InvalidJustification"
                        /\ OutcomeInvalidJustification(calls[p].ret)
                \/ o = "InternalError" /\ OutcomeInternalError(calls[p].ret)}) = 1

\* C15: every response Validate returns is either valid=true with the
\* annotations present and no error message, or valid=false with no
\* annotations and exactly one error message; and a call that returns has a
\* response if and only if it has no fault.
C15_ResponseShapes ==
    \A p \in Procs :
        (Done(p) /\ ~calls[p].ret.panic)
        => /\ Len(calls[p].ret.resp) + Len(calls[p].ret.err) = 1
           /\ \A i \in DOMAIN calls[p].ret.resp :
                IF calls[p].ret.resp[i].Valid
                THEN /\ DOMAIN calls[p].ret.resp[i].Annotation # {}
                     /\ calls[p].ret.resp[i].Error = <<>>
                ELSE /\ calls[p].ret.resp[i].Annotation = NilMap
                     /\ Len(calls[p].ret.resp[i].Error) = 1

C15_Witness ==
    \E p, q \in Procs :
        /\ Done(p) /\ OutcomeValid(calls[p].ret)
        /\ Done(q) /\ OutcomeInvalidJustification(calls[q].ret)
        /\ calls[q].matcherInvoked

\* C16: for every error e the matcher returns to Validate: when e wraps the
\* sentinel, Validate answers valid=false with e's text as the single
\* message and no fault; otherwise it returns no response and a fault of
\* code Internal with e's text.
C16_MatcherErrorClassified ==
    \A p \in Procs :
        (Done(p) /\ calls[p].matchErr # <<>>)
        => IF "errInvalidJustification" \in calls[p].matchErr[1].chain
           THEN Responded(p, [Valid |-> FALSE, Annotation |-> NilMap,
                              Error |-> <<calls[p].matchErr[1].text>>])
           ELSE calls[p].ret =
                    [resp |-> <<>>, panic |-> FALSE,
                     err |-> <<[code |-> "Internal",
                                msg |-> calls[p].matchErr[1].text]>>]

C16_Witness ==
    \E p, q \in Procs :
        /\ Done(p) /\ calls[p].matchErr # <<>>
        /\ "errInvalidJustification" \in calls[p].matchErr[1].chain
        /\ Done(q) /\ calls[q].matchErr # <<>>
        /\ "errInvalidJustification" \notin calls[q].matchErr[1].chain
        /\ OutcomeInternalError(calls[q].ret)

C19_FieldsAsConstructed ==
    \A p \in Procs :
        Done(p)
        => /\ client = [auth |-> <<>>]
           /\ uiData = <<[DisplayName |-> cfg.GitHubPluginDisplayName,
                          Hint |-> cfg.GitHubPluginHint]>>

\* C20: GetUIData returns, without error, the display name and the hint of
\* the configuration the plugin was constructed from, before and after any
\* Validate calls, whatever their outcomes.
C20_UIDataAsConfigured ==
    uiRet.returned
    => /\ uiRet.err = <<>>
       /\ uiRet.data = <<[DisplayName |-> cfg.GitHubPluginDisplayName,
                          Hint |-> cfg.GitHubPluginHint]>>

C20_Witness ==
    /\ uiRet.returned
    /\ uiRet.after > 1
    /\ cfg.GitHubPluginDisplayName = "GitHub Issue"
    /\ \E p, q \in Procs :
        /\ Done(p) /\ OutcomeValid(calls[p].ret)
        /\ Done(q) /\ ~OutcomeValid(calls[q].ret)

\* The identifiers of the deployment: the app, its installation, its key.
InternalIdentifiers ==
    {cfg.GitHubAppID, cfg.GitHubAppInstallationID, cfg.GitHubAppPrivateKeyPEM}

\* C21: no fault text Validate returns on an internal or auth failure
\* contains an internal identifier, so that two runs that differ only in the
\* identity of the app or of its installation return the same fault text.
C21_NoIdentifierInFault ==
    \A p \in Procs :
        (Done(p) /\ OutcomeInternalError(calls[p].ret))
        => \A i \in DOMAIN calls[p].ret.err[1].msg :
            \A j \in DOMAIN calls[p].ret.err[1].msg[i].val :
                calls[p].ret.err[1].msg[i].val[j] \notin InternalIdentifiers

\* The required fields of a configuration with the message of each.
RequiredFields ==
    {<<"GitHubAppID", "GITHUB_APP_ID is empty">>,
     <<"GitHubAppInstallationID", "GITHUB_APP_INSTALLATION_ID is empty">>,
     <<"GitHubAppPrivateKeyPEM", "GITHUB_APP_PRIVATE_KEY_PEM is empty">>,
     <<"GitHubPluginDisplayName", "GITHUB_PLUGIN_DISPLAY_NAME is empty">>,
     <<"GitHubPluginHint", "GITHUB_PLUGIN_HINT is empty">>}

C27_BaseURLDefaulted ==
    Len(results) > 0
    => /\ config.GitHubAPIBaseURL =
            (IF given.GitHubAPIBaseURL = "" THEN "https://api.github.com"
             ELSE given.GitHubAPIBaseURL)
       /\ \A f \in DOMAIN given \ {"GitHubAPIBaseURL"} : config[f] = given[f]
       /\ \A n \in DOMAIN results : results[n] = results[1]

C27_Witness ==
    /\ Len(results) > 1
    /\ given.GitHubAPIBaseURL = ""
    /\ results[2] # <<>>
    /\ config.GitHubAPIBaseURL = "https://api.github.com"

\* The checks of RunUnstarted in the order the claim gives them, the text
\* each failure starts with, and whether the check fails for the command
\* and the configuration RunUnstarted was started on.
C23_Order == <<"flags", "args", "config", "signer", "app", "install">>
C23_Text ==
    <<"failed to parse flags: ", "unexpected arguments: ",
      "invalid configuration: ", "failed to parse private key: ",
      "failed to create github app: ", "failed to get github installation: ">>
C23_Fails(n) ==
    CASE n = 1 -> ~cmd.flagsOK
      [] n = 2 -> cmd.args # <<>>
      [] n = 3 -> \E f \in RequiredFields : given[f[1]] = ""
      [] n = 4 -> given.GitHubAppPrivateKeyPEM # "<RSA PRIVATE KEY>"
      [] n = 5 -> ~cmd.appOK
      [] OTHER -> ~cmd.installOK
C23_Failing == {n \in DOMAIN C23_Order : C23_Fails(n)}
C23_First == CHOOSE n \in C23_Failing : \A m \in C23_Failing : n <= m

\* C23: RunUnstarted performs its checks in the order flags, positional
\* arguments, configuration, private key, app, installation, and stops at
\* the first that fails with that check's error; it returns a plugin only
\* when every check passed.
C23_ChecksInOrder ==
    /\ \E n \in 0..Len(C23_Order) : cmd.steps = SubSeq(C23_Order, 1, n)
    /\ cmd.pc # "done" => cmd.ret = [plugin |-> <<>>, err |-> <<>>]
    /\ cmd.pc = "done"
        => IF C23_Failing = {}
           THEN /\ cmd.steps = C23_Order
                /\ Len(cmd.ret.plugin) = 1
                /\ cmd.ret.err = <<>>
           ELSE /\ cmd.steps = SubSeq(C23_Order, 1, C23_First)
                /\ cmd.ret.plugin = <<>>
                /\ Len(cmd.ret.err) = 1
                /\ cmd.ret.err[1].text[1]
                    = [lit |-> C23_Text[C23_First], val |-> <<>>]

C23_Witness ==
    /\ cmd.pc = "done"
    /\ given.GitHubAppID = ""
    /\ given.GitHubAppPrivateKeyPEM = "invalid_pem"
    /\ cmd.steps = <<"flags", "args", "config">>
    /\ Contains(cmd.ret.err[1].text,
                <<[lit |-> "invalid configuration: ", val |-> <<>>],
                  [lit |-> "GITHUB_APP_ID is empty", val |-> <<>>]>>)

\* C24: within one Validate call a token request is issued only after the
\* category matched and the parser returned a reference, and an issue
\* request only after the token exchange succeeded; a call that ends in the
\* category check or in the parser issued no network request, and one whose
\* token exchange failed issued no issue request; the result is there only
\* when the call has ended.
C24_StepsInOrder ==
    \A p \in Procs :
        /\ calls[p].matcherInvoked
            => calls[p].req.Category = <<"g", "i", "t", "h", "u", "b">>
        /\ calls[p].tokenRequests > 0
            => /\ calls[p].matcherInvoked
               /\ Len(calls[p].info) = 1
               /\ Len(parseIssueInfoFromURL(calls[p].req.Value).info) = 1
        /\ calls[p].fetchRequests > 0
            => /\ calls[p].tokenRequests > 0
               /\ calls[p].tokenAnswer \in {"created", "createdNoToken"}
               /\ Len(calls[p].t) = 1
        /\ (Done(p) /\ Len(calls[p].info) = 0)
            => calls[p].tokenRequests = 0 /\ calls[p].fetchRequests = 0
        /\ (Done(p) /\ calls[p].tokenAnswer
                        \notin {"", "created", "createdNoToken"})
            => calls[p].fetchRequests = 0
        /\ ~Done(p) => calls[p].ret = [resp |-> <<>>, err |-> <<>>, panic |-> FALSE]

C24_Witness ==
    \E p, q \in Procs :
        /\ Done(p) /\ calls[p].matcherInvoked /\ Len(calls[p].info) = 0
        /\ OutcomeInvalidJustification(calls[p].ret)
        /\ Done(q) /\ calls[q].tokenAnswer = "unauthorized"
        /\ calls[q].tokenRequests = 1

\* C25: every reference the parser returns has a non-empty owner, a
\* non-empty repository and a non-negative number, so that no token request
\* names an empty repository.
C25_ReferenceWellFormed ==
    \A p \in Procs :
        /\ \A i \in DOMAIN calls[p].info :
            /\ calls[p].info[i].Owner # <<>>
            /\ calls[p].info[i].RepoName # <<>>
            /\ calls[p].info[i].IssueNumber >= 0
        /\ \A i \in DOMAIN calls[p].tr :
            \A j \in DOMAIN calls[p].tr[i].Repositories :
                calls[p].tr[i].Repositories[j] # <<>>

\* C26: MatchIssue returns no reference and an error when the parser or the
\* token exchange failed; once the token exchange succeeded it returns the
\* parsed reference in every case, with a nil error when the issue is open
\* and with an error when it is not found, not open, or the fetch failed.
C26_ResultsPaired ==
    \A p \in Procs :
        (Done(p) /\ calls[p].matcherInvoked)
        => IF calls[p].tokenAnswer \in {"created", "createdNoToken"}
           THEN /\ Len(calls[p].matchInfo) = 1
                /\ calls[p].matchInfo = calls[p].info
                /\ calls[p].matchErr = <<>> <=> calls[p].fetchAnswer = "open"
           ELSE /\ calls[p].matchInfo = <<>>
                /\ Len(calls[p].matchErr) = 1

\* The justification values whose number is a digit string above the int
\* range.
C28_Case(p) ==
    /\ Done(p)
    /\ calls[p].req.Category = <<"g", "i", "t", "h", "u", "b">>
    /\ HasShape(calls[p].req.Value)
    /\ DigitsGreater(StripZeros(ShapeSegments(calls[p].req.Value)[4]),
                     MaxIntDigits)

\* C28: a URL that matches the pattern but whose digit string exceeds the
\* int range is rejected as an invalid justification by the integer
\* conversion: no reference with a wrapped or truncated number exists, no
\* token request and no issue request is made, and the call ends valid=false
\* and not as a fault.
C28_OverflowRejected ==
    \A p \in Procs :
        C28_Case(p)
        => /\ calls[p].info = <<>>
           /\ calls[p].tokenRequests = 0
           /\ calls[p].fetchRequests = 0
           /\ Rejected(p, <<L("failed to convert issueNumber ")>>)
           /\ Contains(calls[p].matchErr[1].text, <<L(": value out of range")>>)

C28_Witness ==
    \E p \in Procs : C28_Case(p) /\ OutcomeInvalidJustification(calls[p].ret)

\* C29: an issue request is only sent with a non-empty credential: a call
\* whose token exchange answered 201 without a token sends no issue request
\* and ends as an internal fault.
C29_NoFetchWithoutToken ==
    \A p \in Procs :
        /\ calls[p].fetchRequests > 0
            => /\ Len(calls[p].t) = 1
               /\ calls[p].t[1] # EmptyToken
               /\ Len(calls[p].bearer) = 1
               /\ calls[p].bearer[1] # EmptyToken
        /\ (Done(p) /\ calls[p].tokenAnswer = "createdNoToken")
            => OutcomeInternalError(calls[p].ret)

====
